---------------------------- MODULE Spec2Model ----------------------------
(***************************************************************************)
(* Model of server.js of criticalcss-headless: the range merger, the CSS   *)
(* minifier, the cache key, the in-memory result cache and the             *)
(* GET /critical-css request handler.                                      *)
(*                                                                         *)
(* JavaScript strings are modelled as sequences of one-character strings,  *)
(* arrays as sequences, the Map CACHE as the sequence of its entries in    *)
(* iteration (insertion) order.                                            *)
(***************************************************************************)
EXTENDS Integers, Sequences, FiniteSets, TLC

VARIABLES
    ranges,     \* mergeRanges: the array passed in (sorted in place by the call)
    given,      \* mergeRanges: the argument as it was before the call
    out,        \* mergeRanges: the returned array, Null before the call
    shuffled,   \* mergeRanges: the same ranges in another order
    outShuffled, \* mergeRanges: the array returned for shuffled, Null before the call
    css,        \* minifyCss: the input text
    once,       \* minifyCss(css), Null before the call
    twice,      \* minifyCss(minifyCss(css)), Null before the call
    queryA,     \* cache key: the query string parameters of one request
    queryB,     \* cache key: the query string parameters of another request
    keyA,       \* cache key: cacheKey of queryA, Null before it is computed
    keyB,       \* cache key: cacheKey of queryB, Null before it is computed
    CACHE,      \* the Map CACHE: its entries [key, value, expiresAt] in iteration order
    now,        \* the clock nowMs() reads
    pc,         \* per handler: the operation it awaits, "idle" or "done"
    idx,        \* per handler: the index of the loop it is in (selectors, sheets)
    req,        \* per handler: the request it serves, an index of Requests (0: none)
    page,       \* per handler: what the browser reported, an index of Pages (0: not yet)
    texts,      \* per handler: the values of sheetIdToText fetched so far
    browser,    \* per handler: "none", "open" or "closed"
    resp,       \* per handler: the response sent, status 0 while none is
    served,     \* per handler: the number of requests it has received so far
    wrote,      \* history, per handler: the request has called cacheSet
    launched,   \* history, per handler: the request has called chromium.launch
    trace,      \* history, per handler: what the request has called or sent, in order
    setLog,     \* history, per key: the last cacheSet of it, until the key is evicted
    fifo,       \* history: the keys in the store, in the order they were inserted
    call,       \* result cache alone: the last cacheGet or cacheSet and the state it found
    usage,      \* reassembly: the ruleUsage list CSS.stopRuleUsageTracking returned
    sheetIdToText, \* reassembly: per styleSheetId, the text fetched ("" when none)
    baseWanted, \* reassembly: the request's includeBase
    critical,   \* reassembly: the coverage text, Null before it is built
    globalBase, \* reassembly: the global base text, Null before it is built
    baseInputs, \* history: the texts extractGlobalBase was run on, in order
    minifierInput \* reassembly: the text passed to minifyCss, Null before it is built

mergeVars == <<ranges, given, out, shuffled, outShuffled>>
minifyVars == <<css, once, twice>>
keyVars == <<queryA, queryB, keyA, keyB>>
cacheVars == <<CACHE, setLog, fifo>>
handlerVars ==
    <<pc, idx, req, page, texts, browser, resp, served, wrote, launched, trace>>
serverVars == <<cacheVars, now, handlerVars>>
\* What the request handlers never touch.
assembleVars ==
    <<usage, sheetIdToText, baseWanted, critical, globalBase, baseInputs, minifierInput>>
pureVars == <<mergeVars, minifyVars, keyVars, call, assembleVars>>

vars == <<mergeVars, minifyVars, keyVars, serverVars, call, assembleVars>>

Null == "null"

\* ------------------------------------------------------------------ bounds
MaxOffset == 3
MaxRanges == 3
MaxCssLen == 4

\* ------------------------------------------------------------- sequences
RECURSIVE SeqsUpTo(_, _)
SeqsUpTo(S, n) ==
    IF n = 0 THEN {<<>>}
    ELSE LET shorter == SeqsUpTo(S, n - 1)
         IN  shorter \cup {Append(s, x) : s \in {t \in shorter : Len(t) = n - 1}, x \in S}

Max(a, b) == IF a >= b THEN a ELSE b
Min(a, b) == IF a <= b THEN a ELSE b

\* ------------------------------------------------------------ mergeRanges
\* Array.prototype.sort with the comparator (a, b) => a[0] - b[0]: a stable
\* sort by start; ranges with equal starts keep their relative order.
InsertByStart(sorted, r) ==
    LET k == Cardinality({i \in 1..Len(sorted) : sorted[i][1] <= r[1]})
    IN  SubSeq(sorted, 1, k) \o <<r>> \o SubSeq(sorted, k + 1, Len(sorted))

RECURSIVE SortByStart(_)
SortByStart(rs) ==
    IF rs = <<>> THEN <<>>
    ELSE InsertByStart(SortByStart(SubSeq(rs, 1, Len(rs) - 1)), rs[Len(rs)])

\* One iteration of the for loop of mergeRanges: r against the array built so far.
MergeStepAdjacent(acc, r) ==
    IF acc = <<>> \/ r[1] >= acc[Len(acc)][2]
    THEN Append(acc, <<r[1], r[2]>>)
    ELSE [acc EXCEPT ![Len(acc)] = <<acc[Len(acc)][1], Max(acc[Len(acc)][2], r[2])>>]

MergeStepNoMax(acc, r) ==
    IF acc = <<>> \/ r[1] > acc[Len(acc)][2]
    THEN Append(acc, <<r[1], r[2]>>)
    ELSE [acc EXCEPT ![Len(acc)] = <<acc[Len(acc)][1], r[2]>>]

MergeStep(acc, r) ==
    IF acc = <<>> \/ r[1] > acc[Len(acc)][2]
    THEN Append(acc, <<r[1], r[2]>>)
    ELSE [acc EXCEPT ![Len(acc)] = <<acc[Len(acc)][1], Max(acc[Len(acc)][2], r[2])>>]

RECURSIVE MergeSweep(_, _, _)
MergeSweep(sorted, i, acc) ==
    IF i > Len(sorted) THEN acc
    ELSE MergeSweep(sorted, i + 1, MergeStep(acc, sorted[i]))

mergeRanges(rs) == MergeSweep(SortByStart(rs), 1, <<>>)

\* -------------------------------------------------------------- minifyCss
\* \s of a JavaScript regular expression, for the characters the model uses.
IsSpace(c) == c \in {" ", "\n", "\t"}
\* The class [{}:;,] of the third replace.
IsPunct(c) == c \in {"{", "}", ":", ";", ","}

\* The first index >= i of s that holds no white space, Len(s) + 1 when none does.
SkipSpace(s, i) ==
    LET rest == {j \in i..Len(s) : ~IsSpace(s[j])}
    IN  IF rest = {} THEN Len(s) + 1 ELSE CHOOSE j \in rest : \A k \in rest : j <= k

\* .replace(/\/\*[\s\S]*?\*\//g, ""): left to right, each "/*" with the nearest
\* "*/" that starts at least two characters later is removed; the scan resumes
\* after the match and never rescans what it produced.
RECURSIVE StripComments(_, _)
StripComments(s, i) ==
    IF i > Len(s) THEN <<>>
    ELSE LET closers == {j \in (i + 2)..(Len(s) - 1) : s[j] = "*" /\ s[j + 1] = "/"}
         IN  IF i + 1 <= Len(s) /\ s[i] = "/" /\ s[i + 1] = "*" /\ closers # {}
             THEN StripComments(s, (CHOOSE j \in closers : \A k \in closers : j <= k) + 2)
             ELSE <<s[i]>> \o StripComments(s, i + 1)

\* .replace(/\s+/g, " ")
RECURSIVE CollapseSpace(_, _)
CollapseSpace(s, i) ==
    IF i > Len(s) THEN <<>>
    ELSE IF IsSpace(s[i]) THEN <<" ">> \o CollapseSpace(s, SkipSpace(s, i))
    ELSE <<s[i]>> \o CollapseSpace(s, i + 1)

\* .replace(/\s*([{}:;,])\s*/g, "$1"): at i the match is the white space from i,
\* one punctuation character and the white space after it; where the white
\* space from i is not followed by punctuation there is no match at i.
RECURSIVE TightenPunct(_, _)
TightenPunct(s, i) ==
    IF i > Len(s) THEN <<>>
    ELSE LET j == SkipSpace(s, i)
         IN  IF j <= Len(s) /\ IsPunct(s[j])
             THEN <<s[j]>> \o TightenPunct(s, SkipSpace(s, j + 1))
             ELSE <<s[i]>> \o TightenPunct(s, i + 1)

\* .replace(/;}/g, "}")
RECURSIVE DropLastSemicolon(_, _)
DropLastSemicolon(s, i) ==
    IF i > Len(s) THEN <<>>
    ELSE IF i + 1 <= Len(s) /\ s[i] = ";" /\ s[i + 1] = "}"
    THEN <<"}">> \o DropLastSemicolon(s, i + 2)
    ELSE <<s[i]>> \o DropLastSemicolon(s, i + 1)

\* .trim()
Trim(s) ==
    LET keep == {j \in 1..Len(s) : ~IsSpace(s[j])}
    IN  IF keep = {} THEN <<>>
        ELSE SubSeq(s, CHOOSE j \in keep : \A k \in keep : j <= k,
                       CHOOSE j \in keep : \A k \in keep : j >= k)

minifyCss(s) ==
    Trim(DropLastSemicolon(TightenPunct(CollapseSpace(StripComments(s, 1), 1), 1), 1))

\* --------------------------------------------------------------- cache key
DigitChars == <<"0", "1", "2", "3", "4", "5", "6", "7", "8", "9">>
DigitValue(c) == CHOOSE d \in 0..9 : DigitChars[d + 1] = c
IsDigit(c) == \E d \in 0..9 : DigitChars[d + 1] = c

\* Template-literal formatting of a non-negative integer: its decimal digits.
RECURSIVE NumberToString(_)
NumberToString(n) ==
    IF n < 10 THEN <<DigitChars[n + 1]>>
    ELSE NumberToString(n \div 10) \o <<DigitChars[(n % 10) + 1]>>

RECURSIVE DigitsValue(_, _, _, _)
DigitsValue(s, i, j, acc) ==
    IF i > j THEN acc ELSE DigitsValue(s, i + 1, j, 10 * acc + DigitValue(s[i]))

\* parseInt(s, 10): leading white space and one sign are skipped, the longest
\* run of digits is read, NaN when there is none. A number is [nan, value].
NaN == [nan |-> TRUE, value |-> 0]
Num(n) == [nan |-> FALSE, value |-> n]
ParseInt(s) ==
    LET i == SkipSpace(s, 1)
        neg == i <= Len(s) /\ s[i] = "-"
        k == IF i <= Len(s) /\ s[i] \in {"-", "+"} THEN i + 1 ELSE i
        stops == {j \in k..Len(s) : ~IsDigit(s[j])}
        last == IF stops = {} THEN Len(s)
                ELSE (CHOOSE j \in stops : \A m \in stops : j <= m) - 1
    IN  IF last < k THEN NaN
        ELSE IF neg THEN Num(0 - DigitsValue(s, k, last, 0))
        ELSE Num(DigitsValue(s, k, last, 0))

\* (req.query.x || dflt).toString(): an absent or empty parameter reads as dflt.
OrDefault(s, dflt) == IF s = <<>> THEN dflt ELSE s

\* Math.min(Math.max(n, lo), hi)
Clamp(n, lo, hi) == Min(Max(n, lo), hi)

\* String.prototype.split(","): the pieces between the commas, empty ones kept.
RECURSIVE SplitComma(_, _, _)
SplitComma(s, i, piece) ==
    IF i > Len(s) THEN <<piece>>
    ELSE IF s[i] = "," THEN <<piece>> \o SplitComma(s, i + 1, <<>>)
    ELSE SplitComma(s, i + 1, Append(piece, s[i]))

\* .map(s => s.trim()).filter(Boolean)
RECURSIVE TrimAndFilter(_)
TrimAndFilter(pieces) ==
    IF pieces = <<>> THEN <<>>
    ELSE LET t == Trim(Head(pieces))
         IN  (IF t = <<>> THEN <<>> ELSE <<t>>) \o TrimAndFilter(Tail(pieces))

\* Array.prototype.join(sep)
RECURSIVE Join(_, _)
Join(parts, sep) ==
    IF parts = <<>> THEN <<>>
    ELSE IF Len(parts) = 1 THEN parts[1]
    ELSE parts[1] \o sep \o Join(Tail(parts), sep)

\* String.prototype.toLowerCase, for the letters the model uses.
LowerChar(c) == IF c = "H" THEN "h" ELSE IF c = "A" THEN "a" ELSE c
ToLowerCase(s) == [i \in 1..Len(s) |-> LowerChar(s[i])]

DefaultW == <<"1", "3", "6", "6">>
DefaultH == <<"7", "6", "8">>
DefaultSettle == <<"1", "0", "0", "0", "0">>
DefaultCssWait == <<"2", "0", "0", "0", "0">>

\* The request parameters as the handler canonicalizes them.
width(q) ==
    LET w == ParseInt(OrDefault(q.w, DefaultW))
    IN  IF ~w.nan THEN Clamp(w.value, 320, 2560) ELSE 1366

height(q) ==
    LET h == ParseInt(OrDefault(q.h, DefaultH))
    IN  IF ~h.nan THEN Clamp(h.value, 480, 2000) ELSE 768

\* parseInt(...) || 10000: NaN and 0 both read as the default.
settleMs(q) ==
    LET n == ParseInt(OrDefault(q.settle, DefaultSettle))
    IN  Clamp(IF n.nan \/ n.value = 0 THEN 10000 ELSE n.value, 0, 60000)

cssWaitMs(q) ==
    LET n == ParseInt(OrDefault(q.csswait, DefaultCssWait))
    IN  Clamp(IF n.nan \/ n.value = 0 THEN 20000 ELSE n.value, 1000, 60000)

waitSelectors(q) ==
    LET waitRaw == Trim(q.wait)
    IN  IF waitRaw # <<>> THEN TrimAndFilter(SplitComma(waitRaw, 1, <<>>)) ELSE <<>>

scope(q) == ToLowerCase(Trim(q.scope))

includeBase(q) == Trim(OrDefault(q.base, <<"1">>)) # <<"0">>

Canonical(q) ==
    [url |-> Trim(q.url), width |-> width(q), height |-> height(q), ua |-> Trim(q.ua),
     settleMs |-> settleMs(q), cssWaitMs |-> cssWaitMs(q),
     waitSelectors |-> waitSelectors(q), scope |-> scope(q),
     includeBase |-> includeBase(q)]

\* The template literal that is hashed: the nine fields joined by "|", the wait
\* selectors themselves joined by "|".
KeyString(q) ==
    Join(<<Trim(q.url), NumberToString(width(q)), NumberToString(height(q)), Trim(q.ua),
           NumberToString(settleMs(q)), NumberToString(cssWaitMs(q)),
           Join(waitSelectors(q), <<"|">>), scope(q),
           IF includeBase(q) THEN <<"1">> ELSE <<"0">>>>, <<"|">>)

\* SHA-256 taken as collision-free: the digest stands for exactly one message.
sha256(s) == <<"sha256">> \o s

cacheKey(q) == sha256(KeyString(q))

\* ------------------------------------------------------ extractGlobalBase
\* Whether the literal lit stands in s at index i.
LitAt(s, i, lit) ==
    /\ i + Len(lit) - 1 <= Len(s)
    /\ \A k \in 1..Len(lit) : s[i + k - 1] = lit[k]

\* String.prototype.includes
Includes(s, lit) == \E i \in 1..Len(s) : LitAt(s, i, lit)

\* The first index >= i of s that holds c, 0 when none does.
IndexOfChar(s, i, c) ==
    LET at == {j \in i..Len(s) : s[j] = c}
    IN  IF at = {} THEN 0 ELSE CHOOSE j \in at : \A k \in at : j <= k

FontFaceLit == <<"@", "f", "o", "n", "t", "-", "f", "a", "c", "e">>
KeyframesLit == <<"@", "k", "e", "y", "f", "r", "a", "m", "e", "s">>
RootLit == <<":", "r", "o", "o", "t">>
HtmlLit == <<"h", "t", "m", "l">>
BodyLit == <<"b", "o", "d", "y">>
StarLit == <<"*">>
BeforeLit == <<":", ":", "b", "e", "f", "o", "r", "e">>
AfterLit == <<":", ":", "a", "f", "t", "e", "r">>

\* The last index of the match of  lit\s*{[^}]*}  at i, 0 when there is none
\* (fontFaceRe and rootRe).
SimpleBlockEnd(s, i, lit) ==
    IF ~LitAt(s, i, lit) THEN 0
    ELSE LET b == SkipSpace(s, i + Len(lit))
         IN  IF b <= Len(s) /\ s[b] = "{" THEN IndexOfChar(s, b + 1, "}") ELSE 0

\* The last index of the match of  @keyframes\s+[^{]+\{[\s\S]*?\}\s*\}  at i, 0
\* when there is none: white space, at least one more character before the
\* first "{", then the nearest "}" that only white space separates from a "}".
KeyframesEnd(s, i) ==
    IF ~LitAt(s, i, KeyframesLit) THEN 0
    ELSE LET p == i + Len(KeyframesLit)
             b == IndexOfChar(s, p, "{")
             ends == {e \in (b + 1)..Len(s) :
                         /\ s[e] = "}"
                         /\ SkipSpace(s, e + 1) <= Len(s)
                         /\ s[SkipSpace(s, e + 1)] = "}"}
         IN  IF p > Len(s) \/ ~IsSpace(s[p]) \/ b < p + 2 \/ ends = {} THEN 0
             ELSE SkipSpace(s, (CHOOSE e \in ends : \A k \in ends : e <= k) + 1)

\* cssText.replace(re, m => { blocks.push(m); return m; }): the matches of a
\* global regular expression, left to right, none overlapping another.
RECURSIVE FontFaceBlocks(_, _)
FontFaceBlocks(s, i) ==
    IF i > Len(s) THEN <<>>
    ELSE LET e == SimpleBlockEnd(s, i, FontFaceLit)
         IN  IF e = 0 THEN FontFaceBlocks(s, i + 1)
             ELSE <<SubSeq(s, i, e)>> \o FontFaceBlocks(s, e + 1)

RECURSIVE KeyframesBlocks(_, _)
KeyframesBlocks(s, i) ==
    IF i > Len(s) THEN <<>>
    ELSE LET e == KeyframesEnd(s, i)
         IN  IF e = 0 THEN KeyframesBlocks(s, i + 1)
             ELSE <<SubSeq(s, i, e)>> \o KeyframesBlocks(s, e + 1)

RECURSIVE RootBlocks(_, _)
RootBlocks(s, i) ==
    IF i > Len(s) THEN <<>>
    ELSE LET e == SimpleBlockEnd(s, i, RootLit)
         IN  IF e = 0 THEN RootBlocks(s, i + 1)
             ELSE <<SubSeq(s, i, e)>> \o RootBlocks(s, e + 1)

\* The selector test of the simple-rule scan.
IsGlobalSelector(sel) ==
    \/ Includes(sel, HtmlLit)
    \/ Includes(sel, BodyLit)
    \/ Includes(sel, StarLit)
    \/ Includes(sel, BeforeLit)
    \/ Includes(sel, AfterLit)

\* The exec loop over  ([^{]+)\{([^}]*)\} : from i, everything up to the first
\* "{" is the selector, everything up to the next "}" the body.
RECURSIVE SimpleRuleBlocks(_, _)
SimpleRuleBlocks(s, i) ==
    IF i > Len(s) THEN <<>>
    ELSE IF s[i] = "{" THEN SimpleRuleBlocks(s, i + 1)
    ELSE LET b == IndexOfChar(s, i, "{")
             c == IF b = 0 THEN 0 ELSE IndexOfChar(s, b + 1, "}")
             sel == Trim(SubSeq(s, i, b - 1))
         IN  IF b = 0 \/ c = 0 THEN <<>>
             ELSE (IF IsGlobalSelector(sel)
                   THEN <<sel \o <<"{">> \o SubSeq(s, b + 1, c - 1) \o <<"}">>>>
                   ELSE <<>>)
                  \o SimpleRuleBlocks(s, c + 1)

\* Array.from(new Set(blocks)): the first occurrence of each block, in order.
RECURSIVE Dedupe(_)
Dedupe(blocks) ==
    IF blocks = <<>> THEN <<>>
    ELSE LET front == SubSeq(blocks, 1, Len(blocks) - 1)
             last == blocks[Len(blocks)]
         IN  IF \E k \in 1..Len(front) : front[k] = last
             THEN Dedupe(front)
             ELSE Append(Dedupe(front), last)

extractGlobalBase(cssText) ==
    Join(Dedupe(FontFaceBlocks(cssText, 1) \o KeyframesBlocks(cssText, 1)
                \o RootBlocks(cssText, 1) \o SimpleRuleBlocks(cssText, 1)),
         <<"\n">>)

\* --------------------------------------------------- coverage reassembly
\* String.prototype.substring(a, b): both arguments clamped to [0, length],
\* swapped when a > b.
Substring(s, a, b) ==
    LET ca == Clamp(a, 0, Len(s))
        cb == Clamp(b, 0, Len(s))
    IN  SubSeq(s, Min(ca, cb) + 1, Max(ca, cb))

\* bySheet: the ranges of the used records per styleSheetId, the sheets in the
\* order their first used record appears (Map insertion order).
RECURSIVE BySheetUnusedToo(_)
BySheetUnusedToo(ruleUsage) ==
    IF ruleUsage = <<>> THEN <<>>
    ELSE LET front == BySheetUnusedToo(SubSeq(ruleUsage, 1, Len(ruleUsage) - 1))
             u == ruleUsage[Len(ruleUsage)]
             r == <<u.startOffset, u.endOffset>>
             at == {k \in 1..Len(front) : front[k].styleSheetId = u.styleSheetId}
         IN  IF at = {}
             THEN Append(front, [styleSheetId |-> u.styleSheetId, ranges |-> <<r>>])
             ELSE LET k == CHOOSE k \in at : TRUE
                  IN  [front EXCEPT ![k].ranges = Append(@, r)]

RECURSIVE BySheet(_)
BySheet(ruleUsage) ==
    IF ruleUsage = <<>> THEN <<>>
    ELSE LET front == BySheet(SubSeq(ruleUsage, 1, Len(ruleUsage) - 1))
             u == ruleUsage[Len(ruleUsage)]
             r == <<u.startOffset, u.endOffset>>
             at == {k \in 1..Len(front) : front[k].styleSheetId = u.styleSheetId}
         IN  IF ~u.used THEN front
             ELSE IF at = {}
             THEN Append(front, [styleSheetId |-> u.styleSheetId, ranges |-> <<r>>])
             ELSE LET k == CHOOSE k \in at : TRUE
                  IN  [front EXCEPT ![k].ranges = Append(@, r)]

\* The inner loop of the reconstruction: the slices of one sheet's text.
RECURSIVE Slices(_, _)
Slices(cssText, spans) ==
    IF spans = <<>> THEN <<>>
    ELSE Substring(cssText, spans[1][1], spans[1][2]) \o <<"\n">>
         \o Slices(cssText, Tail(spans))

\* critical: sheet k of bySheet has the text sheetTexts[k]; a sheet with no text is
\* skipped.
RECURSIVE Critical(_, _)
Critical(bySheet, sheetTexts) ==
    IF bySheet = <<>> THEN <<>>
    ELSE (IF sheetTexts[1] = <<>> THEN <<>>
          ELSE Slices(sheetTexts[1], mergeRanges(bySheet[1].ranges)))
         \o Critical(Tail(bySheet), Tail(sheetTexts))

\* sheets.sort((a, b) => b.length - a.length): stable, longest first.
InsertByLength(sorted, t) ==
    LET k == Cardinality({i \in 1..Len(sorted) : Len(sorted[i]) >= Len(t)})
    IN  SubSeq(sorted, 1, k) \o <<t>> \o SubSeq(sorted, k + 1, Len(sorted))

RECURSIVE SortByLength(_)
SortByLength(ts) ==
    IF ts = <<>> THEN <<>>
    ELSE InsertByLength(SortByLength(SubSeq(ts, 1, Len(ts) - 1)), ts[Len(ts)])

\* The sheets extractGlobalBase is run on: the two longest non-empty sheetTexts.
BaseSheetsUnsorted(sheetTexts) ==
    LET sheets == SelectSeq(sheetTexts, LAMBDA t : t # <<>>)
    IN  SubSeq(sheets, 1, Min(2, Len(sheets)))

BaseSheets(sheetTexts) ==
    LET sheets == SortByLength(SelectSeq(sheetTexts, LAMBDA t : t # <<>>))
    IN  SubSeq(sheets, 1, Min(2, Len(sheets)))

RECURSIVE BaseOf(_)
BaseOf(sheets) ==
    IF sheets = <<>> THEN <<>>
    ELSE extractGlobalBase(sheets[1]) \o <<"\n">> \o BaseOf(Tail(sheets))

GlobalBase(sheetTexts, withBase) == IF withBase THEN BaseOf(BaseSheets(sheetTexts)) ELSE <<>>

\* `${globalBase}\n${critical}` of a request whose sheets of bySheet have the
\* texts sheetTexts.
MinifierInput(ruleUsage, sheetTexts, withBase) ==
    GlobalBase(sheetTexts, withBase) \o <<"\n">> \o Critical(BySheet(ruleUsage), sheetTexts)

\* outCss
OutCss(ruleUsage, sheetTexts, withBase) ==
    minifyCss(MinifierInput(ruleUsage, sheetTexts, withBase))

\* ------------------------------------------------------------ result cache
\* Scaled down so that TLC can fill the store and let entries expire: the
\* program has CACHE_MAX_ITEMS = 200 and CACHE_TTL_MS = 1000 * 60 * 30.
CACHE_MAX_ITEMS == 3
CACHE_TTL_MS == 2

\* The bounds of the server's runs.
NumHandlers == 2
MaxRequests == 3
MaxTime == 2

KeysOf(C) == [i \in 1..Len(C) |-> C[i].key]
KeySet(C) == {C[i].key : i \in 1..Len(C)}
HasKey(C, key) == key \in KeySet(C)
EntryOf(C, key) == C[CHOOSE i \in 1..Len(C) : C[i].key = key]

\* Map.prototype.delete
MapDelete(C, key) == SelectSeq(C, LAMBDA e : e.key # key)

\* Map.prototype.set: a key already present keeps its place in the iteration
\* order and gets the new entry; a new key goes last.
MapSetAppending(C, entry) == Append(C, entry)

MapSet(C, entry) ==
    IF HasKey(C, entry.key)
    THEN [i \in 1..Len(C) |-> IF C[i].key = entry.key THEN entry ELSE C[i]]
    ELSE Append(C, entry)

\* cacheGet(key) at clock time t: what it returns (found FALSE for null) and
\* the store it leaves.
cacheGetNoExpiry(C, key, t) ==
    IF ~HasKey(C, key) THEN [found |-> FALSE, value |-> <<>>, store |-> C]
    ELSE [found |-> TRUE, value |-> EntryOf(C, key).value, store |-> C]

cacheGetLate(C, key, t) ==
    IF ~HasKey(C, key) THEN [found |-> FALSE, value |-> <<>>, store |-> C]
    ELSE IF EntryOf(C, key).expiresAt < t
    THEN [found |-> FALSE, value |-> <<>>, store |-> MapDelete(C, key)]
    ELSE [found |-> TRUE, value |-> EntryOf(C, key).value, store |-> C]

cacheGetTouch(C, key, t) ==
    IF ~HasKey(C, key) THEN [found |-> FALSE, value |-> <<>>, store |-> C]
    ELSE IF EntryOf(C, key).expiresAt <= t
    THEN [found |-> FALSE, value |-> <<>>, store |-> MapDelete(C, key)]
    ELSE [found |-> TRUE, value |-> EntryOf(C, key).value,
          store |-> Append(MapDelete(C, key), EntryOf(C, key))]

cacheGet(C, key, t) ==
    IF ~HasKey(C, key) THEN [found |-> FALSE, value |-> <<>>, store |-> C]
    ELSE IF EntryOf(C, key).expiresAt <= t
    THEN [found |-> FALSE, value |-> <<>>, store |-> MapDelete(C, key)]
    ELSE [found |-> TRUE, value |-> EntryOf(C, key).value, store |-> C]

\* The keys cacheSet deletes before it inserts: the first key of the iteration
\* order when the store is at capacity (every key is a non-empty digest, so
\* `if (firstKey)` holds whenever there is one).
VictimsNone(C) == {}

VictimsNewest(C) ==
    IF Len(C) >= CACHE_MAX_ITEMS /\ C # <<>> THEN {C[Len(C)].key} ELSE {}

Victims(C) ==
    IF Len(C) >= CACHE_MAX_ITEMS /\ C # <<>> THEN {C[1].key} ELSE {}

\* cacheSet(key, value) at clock time t: the store it leaves.
cacheSetNoTtl(C, key, value, t) ==
    MapSet(SelectSeq(C, LAMBDA e : e.key \notin Victims(C)),
           [key |-> key, value |-> value, expiresAt |-> t])

cacheSet(C, key, value, t) ==
    MapSet(SelectSeq(C, LAMBDA e : e.key \notin Victims(C)),
           [key |-> key, value |-> value, expiresAt |-> t + CACHE_TTL_MS])

\* ------------------------------------------------------- GET /critical-css
\* The requests the clients send (the query string parameters of each).
DefaultQuery ==
    [url |-> <<"h", "t", "t", "p", ":", "/", "/", "a">>, token |-> <<>>, w |-> <<>>,
     h |-> <<>>, ua |-> <<>>, settle |-> <<>>, csswait |-> <<>>, wait |-> <<>>,
     scope |-> <<>>, base |-> <<>>]

Requests ==
    << [DefaultQuery EXCEPT !.wait = <<"a", ",", " ", "b">>],
       [DefaultQuery EXCEPT !.url = <<"h", "t", "t", "p", ":", "/", "/", "b">>,
                            !.scope = <<"H", "e", "a", "d", "e", "r">>,
                            !.base = <<"0">>, !.settle = <<"-", "5">>],
       [DefaultQuery EXCEPT !.w = <<"1", "0", "0">>],
       [DefaultQuery EXCEPT !.url = <<"f", "t", "p", ":", "/", "/", "a">>] >>

\* What the browser may report when tracking stops: the rule usage list and
\* the text CSS.getStyleSheetText has for each style sheet.
SheetA == <<"a", "{", "b", ":", "c", ";", "}">>
SheetB == <<"*", "{", "d", ":", " ", "e", "}">>

Pages ==
    << [ruleUsage |-> <<>>, sheets |-> <<>>],
       [ruleUsage |-> <<[styleSheetId |-> 1, startOffset |-> 0, endOffset |-> 7,
                         used |-> TRUE]>>,
        sheets |-> <<SheetA>>],
       [ruleUsage |-> <<[styleSheetId |-> 2, startOffset |-> 0, endOffset |-> 7,
                         used |-> TRUE],
                        [styleSheetId |-> 1, startOffset |-> 0, endOffset |-> 7,
                         used |-> FALSE]>>,
        sheets |-> <<SheetA, SheetB>>] >>

Handlers == 1..NumHandlers

\* API_TOKEN: process.env.CRITICALCSS_TOKEN || "", unset in the Dockerfile.
API_TOKEN == <<>>

HttpLit == <<"h", "t", "t", "p", ":", "/", "/">>
HttpsLit == <<"h", "t", "t", "p", "s", ":", "/", "/">>
HeaderLit == <<"h", "e", "a", "d", "e", "r">>

\* !url || !/^https?:\/\//i.test(url)
InvalidUrl(url) ==
    \/ url = <<>>
    \/ ~(LitAt(ToLowerCase(url), 1, HttpLit) \/ LitAt(ToLowerCase(url), 1, HttpsLit))

MissingUrlBody == <<"M", "i", "s", "s", "i", "n", "g">>
UnauthorizedBody == <<"U", "n", "a", "u", "t", "h">>
ErrorBody == <<"E", "r", "r", "o", "r">>

NoResponse == [status |-> 0, cache |-> "", body |-> <<>>]

\* The awaited operations whose rejection reaches the handler's catch, and those
\* whose rejection a .catch(() => {}) swallows.
FatalSteps ==
    {"launch", "newPage", "emulateMedia", "newCDPSession", "DOM.enable", "CSS.enable",
     "startRuleUsageTracking", "goto", "settle", "restartTracking", "addStyleTag",
     "forceLayout", "paintDelay"}

BestEffortSteps ==
    {"load", "networkidle", "cssApplied", "waitForSelector", "header", "fonts", "frames",
     "stopPrevious"}

\* The operation awaited after `step` (with loop index i) settles, for a request
\* with the canonical parameters q.
AfterWaitsNoRestart(q) == [step |-> "stopRuleUsageTracking", i |-> 0]

AfterWaits(q) ==
    IF q.scope = HeaderLit THEN [step |-> "stopPrevious", i |-> 0]
    ELSE [step |-> "stopRuleUsageTracking", i |-> 0]

AfterFrames(q) ==
    IF q.settleMs > 0 THEN [step |-> "settle", i |-> 0] ELSE AfterWaits(q)

AfterSelectors(q, i) ==
    IF i < Len(q.waitSelectors) THEN [step |-> "waitForSelector", i |-> i + 1]
    ELSE [step |-> "header", i |-> 0]

After(q, step, i) ==
    CASE step = "launch" -> [step |-> "newPage", i |-> 0]
      [] step = "newPage" -> [step |-> "emulateMedia", i |-> 0]
      [] step = "emulateMedia" -> [step |-> "newCDPSession", i |-> 0]
      [] step = "newCDPSession" -> [step |-> "DOM.enable", i |-> 0]
      [] step = "DOM.enable" -> [step |-> "CSS.enable", i |-> 0]
      [] step = "CSS.enable" -> [step |-> "startRuleUsageTracking", i |-> 0]
      [] step = "startRuleUsageTracking" -> [step |-> "goto", i |-> 0]
      [] step = "goto" -> [step |-> "load", i |-> 0]
      [] step = "load" -> [step |-> "networkidle", i |-> 0]
      [] step = "networkidle" -> [step |-> "cssApplied", i |-> 0]
      [] step = "cssApplied" -> AfterSelectors(q, 0)
      [] step = "waitForSelector" -> AfterSelectors(q, i)
      [] step = "header" -> [step |-> "fonts", i |-> 0]
      [] step = "fonts" -> [step |-> "frames", i |-> 0]
      [] step = "frames" -> AfterFrames(q)
      [] step = "settle" -> AfterWaits(q)
      [] step = "stopPrevious" -> [step |-> "restartTracking", i |-> 0]
      [] step = "restartTracking" -> [step |-> "addStyleTag", i |-> 0]
      [] step = "addStyleTag" -> [step |-> "forceLayout", i |-> 0]
      [] step = "forceLayout" -> [step |-> "paintDelay", i |-> 0]
      [] step = "paintDelay" -> [step |-> "stopRuleUsageTracking", i |-> 0]

\* The state of the server when the process has started.
InitServer ==
    /\ CACHE = <<>>
    /\ now = 0
    /\ pc = [r \in Handlers |-> "idle"]
    /\ idx = [r \in Handlers |-> 0]
    /\ req = [r \in Handlers |-> 0]
    /\ page = [r \in Handlers |-> 0]
    /\ texts = [r \in Handlers |-> <<>>]
    /\ browser = [r \in Handlers |-> "none"]
    /\ resp = [r \in Handlers |-> NoResponse]
    /\ served = [r \in Handlers |-> 0]
    /\ wrote = [r \in Handlers |-> FALSE]
    /\ launched = [r \in Handlers |-> FALSE]
    /\ trace = [r \in Handlers |-> <<>>]
    /\ setLog = <<>>
    /\ fifo = <<>>

\* The histories after cacheSet(key, value) at time t deleted the keys `gone`.
LogSet(log, gone, key, value, t) ==
    MapSet(SelectSeq(log, LAMBDA e : e.key \notin gone),
           [key |-> key, value |-> value, at |-> t])

FifoSet(order, gone, key) ==
    LET kept == SelectSeq(order, LAMBDA k : k \notin gone)
    IN  IF \E i \in 1..Len(kept) : kept[i] = key THEN kept ELSE Append(kept, key)

\* The locals the handler computes once per request, from its first lines: the
\* canonical parameters and the cache key of each request of Requests.
Params == [i \in 1..Len(Requests) |-> Canonical(Requests[i])]
RequestKey == [i \in 1..Len(Requests) |-> cacheKey(Requests[i])]
Rejected == [i \in 1..Len(Requests) |->
                IF InvalidUrl(Trim(Requests[i].url)) THEN 400
                ELSE IF API_TOKEN # <<>> /\ Requests[i].token # API_TOKEN THEN 401
                ELSE 0]

\* outCss for each page the browser may report, each outcome of the fetches of
\* its sheets' texts and each includeBase.
FetchedTexts(p) ==
    {all \in [1..Len(BySheet(Pages[p].ruleUsage)) ->
                {Pages[p].sheets[i] : i \in 1..Len(Pages[p].sheets)} \cup {<<>>}] :
        \A k \in 1..Len(all) :
            all[k] \in {Pages[p].sheets[BySheet(Pages[p].ruleUsage)[k].styleSheetId], <<>>}}

PageOutCss ==
    [p \in 1..Len(Pages) |->
        [all \in FetchedTexts(p) |->
            [b \in BOOLEAN |-> OutCss(Pages[p].ruleUsage, all, b)]]]

\* The number of requests the server has received.
RECURSIVE SumTo(_, _)
SumTo(f, n) == IF n = 0 THEN 0 ELSE f[n] + SumTo(f, n - 1)

Received(count) == SumTo(count, NumHandlers)

\* The handler from its first line to the await of chromium.launch: the
\* parameters are validated, the cache is read, a hit is answered at once.
Receive(r, i) ==
    LET key == RequestKey[i]
        cached == cacheGet(CACHE, key, now)
    IN  /\ pc[r] \in {"idle", "done"}
        /\ Received(served) < MaxRequests
        /\ served' = [served EXCEPT ![r] = @ + 1]
        /\ req' = [req EXCEPT ![r] = i]
        /\ idx' = [idx EXCEPT ![r] = 0]
        /\ page' = [page EXCEPT ![r] = 0]
        /\ texts' = [texts EXCEPT ![r] = <<>>]
        /\ browser' = [browser EXCEPT ![r] = "none"]
        /\ wrote' = [wrote EXCEPT ![r] = FALSE]
        /\ IF Rejected[i] = 400
           THEN /\ resp' = [resp EXCEPT ![r] =
                               [status |-> 400, cache |-> "", body |-> MissingUrlBody]]
                /\ pc' = [pc EXCEPT ![r] = "done"]
                /\ launched' = [launched EXCEPT ![r] = FALSE]
                /\ trace' = [trace EXCEPT ![r] = <<"send">>]
                /\ UNCHANGED cacheVars
           ELSE IF Rejected[i] = 401
           THEN /\ resp' = [resp EXCEPT ![r] =
                               [status |-> 401, cache |-> "", body |-> UnauthorizedBody]]
                /\ pc' = [pc EXCEPT ![r] = "done"]
                /\ launched' = [launched EXCEPT ![r] = FALSE]
                /\ trace' = [trace EXCEPT ![r] = <<"send">>]
                /\ UNCHANGED cacheVars
           ELSE /\ CACHE' = cached.store
                /\ fifo' = SelectSeq(fifo, LAMBDA k : HasKey(cached.store, k))
                /\ UNCHANGED setLog
                /\ IF cached.found /\ cached.value # <<>>
                   THEN /\ resp' = [resp EXCEPT ![r] =
                                       [status |-> 200, cache |-> "HIT",
                                        body |-> cached.value]]
                        /\ pc' = [pc EXCEPT ![r] = "done"]
                        /\ launched' = [launched EXCEPT ![r] = FALSE]
                        /\ trace' = [trace EXCEPT ![r] = <<"send">>]
                   ELSE /\ resp' = [resp EXCEPT ![r] =
                                       [status |-> 0, cache |-> "MISS", body |-> <<>>]]
                        /\ pc' = [pc EXCEPT ![r] = "launch"]
                        /\ launched' = [launched EXCEPT ![r] = TRUE]
                        /\ trace' = [trace EXCEPT ![r] = <<"launch">>]
        /\ UNCHANGED <<now, pureVars>>

\* What the handler calls when it goes on to await `step`, as far as the
\* history keeps it: the tracking commands and the navigation.
Called(step) ==
    CASE step \in {"startRuleUsageTracking", "restartTracking"} -> <<"start">>
      [] step \in {"stopPrevious", "stopRuleUsageTracking"} -> <<"stop">>
      [] step = "goto" -> <<"goto">>
      [] OTHER -> <<>>

\* What the first CSS.stopRuleUsageTracking of scope=header resolved with, as
\* the history keeps it: the page of Pages whose rule usage list it returned.
UsageNames == [p \in 1..Len(Pages) |-> <<"usage1", "usage2", "usage3">>[p]]
Returns(step) == IF step = "stopPrevious" THEN {1, Len(Pages)} ELSE {1}
Returned(step, p) == IF step = "stopPrevious" THEN <<UsageNames[p]>> ELSE <<>>

\* The awaited operation resolves and the handler runs to its next await; the
\* list the first CSS.stopRuleUsageTracking of scope=header resolves with is
\* not assigned.
Resolve(r) ==
    LET next == After(Params[req[r]], pc[r], idx[r])
    IN  /\ pc[r] \in FatalSteps \cup BestEffortSteps
        /\ pc' = [pc EXCEPT ![r] = next.step]
        /\ idx' = [idx EXCEPT ![r] = next.i]
        /\ browser' = [browser EXCEPT ![r] = IF pc[r] = "launch" THEN "open" ELSE @]
        /\ \E p \in Returns(pc[r]) :
              trace' = [trace EXCEPT ![r] = @ \o Returned(pc[r], p) \o Called(next.step)]
        /\ UNCHANGED <<cacheVars, now, req, page, texts, resp, served, wrote, launched>>
        /\ UNCHANGED pureVars

\* A best-effort wait rejects: .catch(() => {}) swallows it and the handler goes on.
Swallow(r) ==
    LET next == After(Params[req[r]], pc[r], idx[r])
    IN  /\ pc[r] \in BestEffortSteps
        /\ pc' = [pc EXCEPT ![r] = next.step]
        /\ idx' = [idx EXCEPT ![r] = next.i]
        /\ trace' = [trace EXCEPT ![r] = @ \o Called(next.step)]
        /\ UNCHANGED <<cacheVars, now, req, page, texts, browser, resp, served, wrote,
                       launched, pureVars>>

\* catch (e) and finally: the error response, then browser.close() if a browser
\* was launched.
CatchCaching(r) ==
    /\ resp' = [resp EXCEPT ![r] = [status |-> 500, cache |-> "MISS", body |-> ErrorBody]]
    /\ pc' = [pc EXCEPT ![r] = IF browser[r] = "open" THEN "close" ELSE "done"]
    /\ trace' = [trace EXCEPT ![r] =
                    @ \o <<"send">> \o (IF browser[r] = "open" THEN <<"close">> ELSE <<>>)]
    /\ CACHE' = cacheSet(CACHE, RequestKey[req[r]], ErrorBody, now)
    /\ setLog' = LogSet(setLog, Victims(CACHE), RequestKey[req[r]], ErrorBody, now)
    /\ fifo' = FifoSet(fifo, Victims(CACHE), RequestKey[req[r]])
    /\ wrote' = [wrote EXCEPT ![r] = TRUE]
    /\ idx' = [idx EXCEPT ![r] = 0]
    /\ UNCHANGED <<now, req, page, texts, browser, served, launched>>

CatchLeavingBrowser(r) ==
    /\ resp' = [resp EXCEPT ![r] = [status |-> 500, cache |-> "MISS", body |-> ErrorBody]]
    /\ pc' = [pc EXCEPT ![r] = "done"]
    /\ trace' = [trace EXCEPT ![r] = @ \o <<"send">>]
    /\ idx' = [idx EXCEPT ![r] = 0]
    /\ UNCHANGED <<cacheVars, now, req, page, texts, browser, served, wrote, launched>>

Catch(r) ==
    /\ resp' = [resp EXCEPT ![r] = [status |-> 500, cache |-> "MISS", body |-> ErrorBody]]
    /\ pc' = [pc EXCEPT ![r] = IF browser[r] = "open" THEN "close" ELSE "done"]
    /\ trace' = [trace EXCEPT ![r] =
                    @ \o <<"send">> \o (IF browser[r] = "open" THEN <<"close">> ELSE <<>>)]
    /\ idx' = [idx EXCEPT ![r] = 0]
    /\ UNCHANGED <<cacheVars, now, req, page, texts, browser, served, wrote, launched>>

\* An awaited operation with no .catch rejects.
Throw(r) ==
    /\ pc[r] \in FatalSteps \cup {"stopRuleUsageTracking"}
    /\ Catch(r)
    /\ UNCHANGED pureVars

\* From outCss to the response, then finally: an empty result is answered 204
\* and not stored, any other is stored and sent.
FinishCachingEmpty(r, p, all) ==
    \E outCss \in {PageOutCss[p][all][Params[req[r]].includeBase]} :
        /\ CACHE' = cacheSet(CACHE, RequestKey[req[r]], outCss, now)
        /\ setLog' = LogSet(setLog, Victims(CACHE), RequestKey[req[r]], outCss, now)
        /\ fifo' = FifoSet(fifo, Victims(CACHE), RequestKey[req[r]])
        /\ wrote' = [wrote EXCEPT ![r] = TRUE]
        /\ resp' = [resp EXCEPT ![r] =
                       IF outCss = <<>>
                       THEN [status |-> 204, cache |-> "MISS", body |-> <<>>]
                       ELSE [status |-> 200, cache |-> "MISS", body |-> outCss]]
        /\ pc' = [pc EXCEPT ![r] = "close"]
        /\ trace' = [trace EXCEPT ![r] = @ \o <<"send", "close">>]

Finish(r, p, all) ==
    \E outCss \in {PageOutCss[p][all][Params[req[r]].includeBase]} :
        /\ IF outCss = <<>>
           THEN /\ resp' = [resp EXCEPT ![r] =
                               [status |-> 204, cache |-> "MISS", body |-> <<>>]]
                /\ UNCHANGED <<cacheVars, wrote>>
           ELSE /\ CACHE' = cacheSet(CACHE, RequestKey[req[r]], outCss, now)
                /\ setLog' = LogSet(setLog, Victims(CACHE), RequestKey[req[r]], outCss, now)
                /\ fifo' = FifoSet(fifo, Victims(CACHE), RequestKey[req[r]])
                /\ wrote' = [wrote EXCEPT ![r] = TRUE]
                /\ resp' = [resp EXCEPT ![r] =
                               [status |-> 200, cache |-> "MISS", body |-> outCss]]
        /\ pc' = [pc EXCEPT ![r] = "close"]
        /\ trace' = [trace EXCEPT ![r] = @ \o <<"send", "close">>]

\* The last CSS.stopRuleUsageTracking resolves with the usage list of page p;
\* the handler fetches the text of the first sheet, or finishes when no record
\* is used.
StopResolve(r, p) ==
    /\ pc[r] = "stopRuleUsageTracking"
    /\ IF BySheet(Pages[p].ruleUsage) = <<>>
       THEN /\ Finish(r, p, <<>>)
            /\ UNCHANGED <<idx, page, texts>>
       ELSE /\ pc' = [pc EXCEPT ![r] = "getStyleSheetText"]
            /\ page' = [page EXCEPT ![r] = p]
            /\ idx' = [idx EXCEPT ![r] = 1]
            /\ UNCHANGED <<cacheVars, texts, resp, wrote, trace>>
    /\ UNCHANGED <<now, req, browser, served, launched, pureVars>>

\* CSS.getStyleSheetText settles for the sheet idx of bySheet: its text, or ""
\* when it rejects or has none.
TextSettle(r, ok) ==
    LET bySheet == BySheet(Pages[page[r]].ruleUsage)
        t == IF ok THEN Pages[page[r]].sheets[bySheet[idx[r]].styleSheetId] ELSE <<>>
        all == Append(texts[r], t)
    IN  /\ pc[r] = "getStyleSheetText"
        /\ IF idx[r] < Len(bySheet)
           THEN /\ idx' = [idx EXCEPT ![r] = idx[r] + 1]
                /\ texts' = [texts EXCEPT ![r] = all]
                /\ UNCHANGED <<cacheVars, pc, page, resp, wrote, trace>>
           ELSE /\ Finish(r, page[r], all)
                /\ idx' = [idx EXCEPT ![r] = 0]
                /\ page' = [page EXCEPT ![r] = 0]
                /\ texts' = [texts EXCEPT ![r] = <<>>]
        /\ UNCHANGED <<now, req, browser, served, launched, pureVars>>

\* browser.close() settles (a rejection is swallowed by try/catch).
Close(r) ==
    /\ pc[r] = "close"
    /\ pc' = [pc EXCEPT ![r] = "done"]
    /\ browser' = [browser EXCEPT ![r] = "closed"]
    /\ UNCHANGED <<cacheVars, now, idx, req, page, texts, resp, served, wrote, launched,
                   trace>>
    /\ UNCHANGED pureVars

\* Time passes.
Tick ==
    /\ now < MaxTime
    /\ now' = now + 1
    /\ UNCHANGED <<cacheVars, handlerVars, pureVars>>

\* ---------------------------------------------------- specification: merge
Offsets == 0..MaxOffset
RangeInputs == SeqsUpTo(Offsets \X Offsets, MaxRanges)

MergeIdle ==
    ranges = <<>> /\ given = <<>> /\ out = Null /\ shuffled = <<>> /\ outShuffled = Null
MinifyIdle == css = <<>> /\ once = Null /\ twice = Null
KeyIdle == queryA = Null /\ queryB = Null /\ keyA = Null /\ keyB = Null

NoCall ==
    [op |-> "none", key |-> <<>>, value |-> <<>>, found |-> FALSE, at |-> 0,
     before |-> <<>>, order |-> <<>>, log |-> <<>>, lastHit |-> <<>>]

CacheIdle == call = NoCall

AssembleIdle ==
    /\ usage = <<>>
    /\ sheetIdToText = <<>>
    /\ baseWanted = FALSE
    /\ critical = Null
    /\ globalBase = Null
    /\ baseInputs = Null
    /\ minifierInput = Null

\* --------------------------------------------------- specification: server
Init ==
    /\ InitServer
    /\ MergeIdle
    /\ MinifyIdle
    /\ KeyIdle
    /\ CacheIdle
    /\ AssembleIdle

Next ==
    \/ \E r \in Handlers : \E i \in 1..Len(Requests) : Receive(r, i)
    \/ \E r \in Handlers : Resolve(r)
    \/ \E r \in Handlers : Swallow(r)
    \/ \E r \in Handlers : Throw(r)
    \/ \E r \in Handlers : \E p \in 1..Len(Pages) : StopResolve(r, p)
    \/ \E r \in Handlers : \E ok \in BOOLEAN : TextSettle(r, ok)
    \/ \E r \in Handlers : Close(r)
    \/ Tick

Spec == Init /\ [][Next]_vars

\* C8: an empty minified result is never cached: the step that answers 204
\* leaves the store as it is and the request never calls cacheSet, every value
\* in the store is a non-empty string, and a later request with the same
\* parameters that finds no entry launches the browser again.
EmptyNeverCached ==
    /\ [](\A i \in 1..Len(CACHE) : CACHE[i].value # <<>>)
    /\ [](\A r \in Handlers :
            resp[r].status = 204 => (~wrote[r] /\ resp[r].body = <<>> /\ launched[r]))
    /\ [][\A r \in Handlers :
            (resp'[r].status = 204 /\ resp[r].status # 204) => UNCHANGED cacheVars]_vars
    /\ [][\A r \in Handlers :
            (served'[r] = served[r] + 1 /\ Rejected[req'[r]] = 0
                /\ ~HasKey(CACHE, RequestKey[req'[r]]))
            => (launched'[r] /\ pc'[r] = "launch")]_vars

\* A request was answered 204 after the browser reported used rules, nothing
\* is stored under its key while another key is, and the other handler runs
\* the extraction for the same parameters.
EmptyNeverCachedWitness ==
    \E r \in Handlers : \E o \in Handlers \ {r} :
        /\ resp[r].status = 204
        /\ pc[r] = "done"
        /\ ~HasKey(CACHE, RequestKey[req[r]])
        /\ CACHE # <<>>
        /\ req[o] = req[r]
        /\ pc[o] = "getStyleSheetText"

\* C9: a request that ends in the handler's catch is answered with the error
\* response and writes nothing: the step that answers 500 leaves the store as
\* it is, and the request has not called cacheSet.
FailureLeavesCache ==
    /\ [](\A r \in Handlers :
            resp[r].status = 500 => (~wrote[r] /\ resp[r].body = ErrorBody))
    /\ [][\A r \in Handlers :
            (resp'[r].status = 500 /\ resp[r].status # 500) => UNCHANGED cacheVars]_vars

\* A request failed after its browser was launched, while the store holds what
\* another request stored.
FailureLeavesCacheWitness ==
    \E r \in Handlers :
        /\ resp[r].status = 500
        /\ browser[r] = "closed"
        /\ CACHE # <<>>
        /\ ~HasKey(CACHE, RequestKey[req[r]])

\* C10: when a request arrives whose key was stored by a finished miss, with
\* no eviction of the key since and less than CACHE_TTL_MS ago, it is answered
\* 200 as a cache HIT with the stored text as its body, at once: no browser is
\* launched, no operation awaited, the store is left as it is.
HitAfterMiss ==
    [][\A r \in Handlers :
        (/\ served'[r] = served[r] + 1
         /\ Rejected[req'[r]] = 0
         /\ HasKey(setLog, RequestKey[req'[r]])
         /\ now < EntryOf(setLog, RequestKey[req'[r]]).at + CACHE_TTL_MS)
        => /\ resp'[r] = [status |-> 200, cache |-> "HIT",
                          body |-> EntryOf(setLog, RequestKey[req'[r]]).value]
           /\ ~launched'[r]
           /\ browser'[r] = "none"
           /\ pc'[r] = "done"
           /\ CACHE' = CACHE]_vars

\* One handler answered a miss with a non-empty text, and later, before the
\* entry expired, the other answered the same request as a hit with that text.
HitAfterMissWitness ==
    \E r \in Handlers : \E o \in Handlers \ {r} :
        /\ resp[r].status = 200 /\ resp[r].cache = "MISS" /\ pc[r] = "done"
        /\ resp[o].status = 200 /\ resp[o].cache = "HIT" /\ pc[o] = "done"
        /\ req[o] = req[r]
        /\ resp[o].body = resp[r].body
        /\ resp[o].body # <<>>
        /\ ~launched[o]
        /\ now > 0

\* The awaited operations from navigation to the settle delay.
WaitSteps ==
    {"goto", "load", "networkidle", "cssApplied", "waitForSelector", "header", "fonts",
     "frames", "settle"}

\* C11: a failure at any wait step of the pipeline (navigation, load, network
\* idle, CSS applied, selectors, header, fonts, frames, settle delay) does not
\* abort the request: no step taken while a wait step is awaited answers 500.
WaitFailureNeverAborts ==
    [][\A r \in Handlers : pc[r] \in WaitSteps => resp'[r].status # 500]_vars

\* C14: the calls of CSS.startRuleUsageTracking, page.goto and
\* CSS.stopRuleUsageTracking a request has made are always a prefix of start,
\* goto, stop, start, stop with scope=header and of start, goto, stop without
\* it; a request that has its usage list has made exactly these calls; and the
\* body it sends is outCss of the list the last stop returned, whatever the
\* first stop returned.
TrackingCalls(r) == SelectSeq(trace[r], LAMBDA e : e \in {"start", "goto", "stop"})

UsagesDiscarded(r) ==
    SelectSeq(trace[r], LAMBDA e : e \in {UsageNames[p] : p \in 1..Len(Pages)})

TrackingExpected(q) ==
    IF q.scope = HeaderLit THEN <<"start", "goto", "stop", "start", "stop">>
    ELSE <<"start", "goto", "stop">>

HasUsage(r) ==
    \/ pc[r] = "getStyleSheetText"
    \/ (resp[r].cache = "MISS" /\ resp[r].status \in {200, 204})

TrackingOrder ==
    /\ [](\A r \in Handlers :
            req[r] # 0 /\ Rejected[req[r]] = 0 =>
                LET calls == TrackingCalls(r)
                    expected == TrackingExpected(Params[req[r]])
                IN  /\ Len(calls) <= Len(expected)
                    /\ calls = SubSeq(expected, 1, Len(calls))
                    /\ HasUsage(r) => calls = expected)
    /\ [][\A r \in Handlers :
            /\ (pc[r] = "stopRuleUsageTracking" /\ pc'[r] = "getStyleSheetText") =>
                    BySheet(Pages[page'[r]].ruleUsage) # <<>>
            /\ (pc[r] = "stopRuleUsageTracking" /\ pc'[r] = "close"
                    /\ resp'[r].status # 500) =>
                    \E p \in 1..Len(Pages) :
                        /\ BySheet(Pages[p].ruleUsage) = <<>>
                        /\ resp'[r].body = PageOutCss[p][<<>>][Params[req[r]].includeBase]
            /\ (pc[r] = "getStyleSheetText" /\ pc'[r] = "close") =>
                    \E all \in FetchedTexts(page[r]) :
                        resp'[r].body = PageOutCss[page[r]][all][Params[req[r]].includeBase]
        ]_vars

\* A scope=header request answered 200 from the second list although the first
\* stop returned another, non-empty, list.
TrackingOrderWitness ==
    \E r \in Handlers :
        /\ req[r] # 0
        /\ Params[req[r]].scope = HeaderLit
        /\ resp[r].status = 200
        /\ resp[r].cache = "MISS"
        /\ TrackingCalls(r) = <<"start", "goto", "stop", "start", "stop">>
        /\ UsagesDiscarded(r) = <<UsageNames[3]>>
        /\ resp[r].body = minifyCss(SheetA)

\* C19: in every reachable state the entries of the store, in iteration order,
\* have non-decreasing expiresAt (so that the first entry, the one a cacheSet at
\* capacity evicts, has the earliest expiry).
ExpiryOrdered ==
    \A i, j \in 1..Len(CACHE) : i < j => CACHE[i].expiresAt <= CACHE[j].expiresAt

\* C13: requests with the same key are not coalesced and the store keeps one
\* entry per key: a request whose key has no live entry when it is received is
\* a MISS and launches its own browser, whatever the other handler is doing;
\* the step on which a handler calls cacheSet leaves exactly one entry for its
\* key, holding the value it sends and expiring CACHE_TTL_MS later; and no
\* other step adds or changes an entry.
Stores(r) == ~wrote[r] /\ wrote'[r]

Live(C, key, t) == \E i \in 1..Len(C) : C[i].key = key /\ C[i].expiresAt > t

EntriesOf(C) == {C[i] : i \in 1..Len(C)}

StampedeNotCoalesced ==
    /\ [](\A i, j \in 1..Len(CACHE) : CACHE[i].key = CACHE[j].key => i = j)
    /\ [][\A r \in Handlers :
            /\ (served'[r] # served[r] /\ Rejected[req'[r]] = 0
                    /\ ~Live(CACHE, RequestKey[req'[r]], now)) =>
                    /\ pc'[r] = "launch"
                    /\ resp'[r].cache = "MISS"
                    /\ launched'[r]
            /\ Stores(r) =>
                    /\ Cardinality({i \in 1..Len(CACHE') :
                                        CACHE'[i].key = RequestKey[req[r]]}) = 1
                    /\ EntryOf(CACHE', RequestKey[req[r]]) =
                            [key |-> RequestKey[req[r]], value |-> resp'[r].body,
                             expiresAt |-> now + CACHE_TTL_MS]
                    /\ EntriesOf(CACHE') \subseteq
                            EntriesOf(CACHE) \cup {EntryOf(CACHE', RequestKey[req[r]])}
            /\ (\A o \in Handlers : ~Stores(o)) => EntriesOf(CACHE') \subseteq EntriesOf(CACHE)
        ]_vars

\* Two requests with the same key, both received before either stored (no time
\* has passed, so the second would have been a HIT otherwise): both are
\* answered MISS with their own result, both called cacheSet, one entry is left.
StampedeNotCoalescedWitness ==
    \E r, o \in Handlers :
        /\ r # o
        /\ now = 0
        /\ req[r] # 0
        /\ req[r] = req[o]
        /\ resp[r].status = 200 /\ resp[r].cache = "MISS" /\ wrote[r]
        /\ resp[o].status = 200 /\ resp[o].cache = "MISS" /\ wrote[o]
        /\ resp[r].body # resp[o].body
        /\ Len(CACHE) = 1
        /\ CACHE[1].key = RequestKey[req[r]]
        /\ CACHE[1].value = resp[o].body

\* -------------------------------------- specification: one request at a time
\* The operation handler r awaits settles, one way or the other.
Settle(r) ==
    \/ Resolve(r)
    \/ Swallow(r)
    \/ Throw(r)
    \/ \E p \in 1..Len(Pages) : StopResolve(r, p)
    \/ \E ok \in BOOLEAN : TextSettle(r, ok)
    \/ Close(r)

\* The server taking its requests one at a time, when no awaited operation
\* stays pending for ever (Playwright's operations run under the page's default
\* timeout).
FirstHandler == CHOOSE r \in Handlers : \A o \in Handlers : r <= o

NextLive ==
    \/ \E i \in 1..Len(Requests) : Receive(FirstHandler, i)
    \/ Settle(FirstHandler)
    \/ Tick

SpecLive == Init /\ [][NextLive]_vars /\ WF_vars(Settle(FirstHandler))

Count(events, e) == Len(SelectSeq(events, LAMBDA x : x = e))

\* C18: every request that launched a browser closes it, exactly once and on
\* every outcome, every request sends exactly one response, a HIT launches no
\* browser, and no request ends with its browser left open.
BrowserClosedOnce ==
    /\ [](\A r \in Handlers :
            /\ Count(trace[r], "close") <= 1
            /\ Count(trace[r], "send") <= 1
            /\ Count(trace[r], "close") = (IF browser[r] = "none" THEN 0 ELSE 1)
               \/ (browser[r] = "open" /\ pc[r] \notin {"close", "done"})
            /\ (pc[r] = "done" /\ req[r] # 0) =>
                    /\ Count(trace[r], "send") = 1
                    /\ browser[r] # "open"
                    /\ resp[r].status # 0
            /\ resp[r].cache = "HIT" => (browser[r] = "none" /\ ~launched[r]))
    /\ (pc[FirstHandler] \notin {"idle", "done"})
            ~> (pc[FirstHandler] = "done" /\ browser[FirstHandler] # "open")

\* A request failed after its browser was launched and all the waits were
\* over, and the browser was closed.
BrowserClosedOnceWitness ==
    \E r \in Handlers :
        /\ resp[r].status = 500
        /\ browser[r] = "closed"
        /\ pc[r] = "done"
        /\ Count(trace[r], "close") = 1
        /\ Count(trace[r], "stop") >= 1

\* --------------------------------------------- specification: result cache
\* cacheGet and cacheSet called in any order, on the keys of the valid
\* requests and with texts the handler stores.
\* The keys of the requests the server accepts, and of one more request, so
\* that a full store can be offered a key it does not hold.
CacheKeys ==
    {RequestKey[i] : i \in {j \in 1..Len(Requests) : Rejected[j] = 0}}
        \cup {cacheKey([DefaultQuery EXCEPT !.h = <<"9">>])}
CacheValues == {minifyCss(SheetA), minifyCss(SheetB)}

\* The values offered for each key: two results for the key of the first
\* request, one for every other key.
ValuesFor(k) == IF k = RequestKey[1] THEN CacheValues ELSE {minifyCss(SheetA)}

InitCache ==
    /\ InitServer
    /\ CacheIdle
    /\ AssembleIdle
    /\ MergeIdle
    /\ MinifyIdle
    /\ KeyIdle

Get(k) ==
    LET got == cacheGet(CACHE, k, now)
    IN  /\ CACHE' = got.store
        /\ fifo' = SelectSeq(fifo, LAMBDA x : HasKey(got.store, x))
        /\ call' = [op |-> "get", key |-> k, value |-> got.value, found |-> got.found,
                    at |-> now, before |-> CACHE, order |-> fifo, log |-> setLog,
                    lastHit |-> IF got.found THEN k ELSE call.lastHit]
        /\ UNCHANGED <<setLog, now, handlerVars, mergeVars, minifyVars, keyVars, assembleVars>>

Set(k, v) ==
    /\ CACHE' = cacheSet(CACHE, k, v, now)
    /\ setLog' = LogSet(setLog, Victims(CACHE), k, v, now)
    /\ fifo' = FifoSet(fifo, Victims(CACHE), k)
    /\ call' = [op |-> "set", key |-> k, value |-> v, found |-> FALSE, at |-> now,
                before |-> CACHE, order |-> fifo, log |-> setLog,
                lastHit |-> call.lastHit]
    /\ UNCHANGED <<now, handlerVars, mergeVars, minifyVars, keyVars, assembleVars>>

NextCache ==
    \/ \E k \in CacheKeys : Get(k)
    \/ \E k \in CacheKeys : \E v \in ValuesFor(k) : Set(k, v)
    \/ Tick

SpecCache == InitCache /\ [][NextCache]_vars

\* C5: after cacheSet(k, v) at time t, with no later set or eviction of k,
\* cacheGet(k) returns v and leaves the store alone at every time before
\* t + CACHE_TTL_MS; from t + CACHE_TTL_MS on it returns null and the entry of
\* k is gone from the store, the others staying; cacheGet of a key with no
\* such cacheSet returns null.
GetWithinTtl ==
    call.op = "get" =>
        IF HasKey(call.log, call.key)
        THEN IF call.at < EntryOf(call.log, call.key).at + CACHE_TTL_MS
             THEN /\ call.found
                  /\ call.value = EntryOf(call.log, call.key).value
                  /\ CACHE = call.before
             ELSE /\ ~call.found
                  /\ ~HasKey(CACHE, call.key)
                  /\ CACHE = SelectSeq(call.before, LAMBDA e : e.key # call.key)
        ELSE /\ ~call.found
             /\ CACHE = call.before

\* cacheGet found the expired entry of its key in a full store and removed it.
GetWithinTtlWitness ==
    /\ call.op = "get"
    /\ HasKey(call.log, call.key)
    /\ call.at >= EntryOf(call.log, call.key).at + CACHE_TTL_MS
    /\ HasKey(call.before, call.key)
    /\ Len(call.before) = CACHE_MAX_ITEMS
    /\ Len(CACHE) = CACHE_MAX_ITEMS - 1

\* C6: in every reachable state, whatever the order in which the handlers'
\* cacheGet and cacheSet calls reach the store, it holds at most
\* CACHE_MAX_ITEMS entries, the expired ones no cacheGet has read yet included.
StoreBounded == Len(CACHE) <= CACHE_MAX_ITEMS

\* The store is full after a cacheSet of a new key that found it full, and one
\* of its entries has expired and is still there.
StoreBoundedWitness ==
    /\ Len(CACHE) = CACHE_MAX_ITEMS
    /\ call.op = "set"
    /\ Len(call.before) = CACHE_MAX_ITEMS
    /\ ~HasKey(call.before, call.key)
    /\ \E i \in 1..Len(CACHE) : CACHE[i].expiresAt <= now

\* C7: a cacheSet that finds the store at capacity removes exactly one entry
\* before it inserts, the one inserted earliest of those in the store (a
\* cacheSet on a key already present overwrites its entry and is no
\* insertion); a cacheGet that hits leaves the store and its order as they
\* are, so the next entry to be evicted is the same after it.
EvictsOldestInserted ==
    /\ (call.op = "set" /\ Len(call.before) >= CACHE_MAX_ITEMS) =>
            LET oldest == call.order[1]
                rest == SelectSeq(call.before, LAMBDA e : e.key # oldest)
            IN  /\ Len(rest) = Len(call.before) - 1
                /\ KeysOf(CACHE) = IF HasKey(rest, call.key) THEN KeysOf(rest)
                                   ELSE Append(KeysOf(rest), call.key)
    /\ (call.op = "get" /\ call.found) =>
            /\ CACHE = call.before
            /\ fifo = call.order
            /\ Victims(CACHE) = Victims(call.before)

\* cacheSet of a new key found the store full and evicted the oldest entry,
\* which was the one read last.
EvictsOldestInsertedWitness ==
    /\ call.op = "set"
    /\ Len(call.before) = CACHE_MAX_ITEMS
    /\ ~HasKey(call.before, call.key)
    /\ call.lastHit = call.order[1]
    /\ ~HasKey(CACHE, call.lastHit)
    /\ Len(CACHE) = CACHE_MAX_ITEMS

\* The orders a list can be passed in.
Orders(list) ==
    {[i \in 1..Len(list) |-> list[f[i]]] :
        f \in {g \in [1..Len(list) -> 1..Len(list)] :
                  \A i, j \in 1..Len(list) : g[i] = g[j] => i = j}}

InitMerge ==
    /\ ranges \in RangeInputs
    /\ given = ranges
    /\ out = Null
    /\ shuffled \in Orders(ranges)
    /\ outShuffled = Null
    /\ MinifyIdle
    /\ KeyIdle
    /\ CacheIdle
    /\ AssembleIdle
    /\ InitServer

CallMerge ==
    /\ out = Null
    /\ ranges' = SortByStart(ranges)
    /\ out' = mergeRanges(ranges)
    /\ UNCHANGED <<given, shuffled, outShuffled, minifyVars, keyVars, serverVars, call, assembleVars>>

CallMergeShuffled ==
    /\ outShuffled = Null
    /\ shuffled' = SortByStart(shuffled)
    /\ outShuffled' = mergeRanges(shuffled)
    /\ UNCHANGED <<ranges, given, out, minifyVars, keyVars, serverVars, call, assembleVars>>

NextMerge == CallMerge \/ CallMergeShuffled

SpecMerge == InitMerge /\ [][NextMerge]_vars

\* C1: the array mergeRanges returns is sorted by start ascending and every two
\* consecutive spans a, b of it satisfy b.start > a.end; the empty input gives
\* the empty output.
MergeSortedDisjoint ==
    out # Null =>
        /\ \A i \in 1..(Len(out) - 1) :
              /\ out[i][1] <= out[i + 1][1]
              /\ out[i + 1][1] > out[i][2]
        /\ (given = <<>> => out = <<>>)

MergeSortedDisjointWitness ==
    /\ out # Null
    /\ Len(out) >= 2
    /\ Len(given) > Len(out)
    /\ \E i \in 1..Len(given) : given[i][1] = given[i][2]
    /\ \E i \in 1..(Len(given) - 1) : given[i][1] > given[i + 1][1]

\* C2: for inputs whose ranges all have start < end, the offsets covered by the
\* returned spans are exactly the offsets covered by the input ranges.
Covered(rs) == {x \in Offsets : \E i \in 1..Len(rs) : rs[i][1] <= x /\ x < rs[i][2]}

MergeKeepsCoverage ==
    (out # Null /\ \A i \in 1..Len(given) : given[i][1] < given[i][2])
        => Covered(out) = Covered(given)

MergeKeepsCoverageWitness ==
    /\ out # Null
    /\ \A i \in 1..Len(given) : given[i][1] < given[i][2]
    /\ Len(given) = 3
    /\ Len(out) = 1
    /\ given[1][1] > given[2][1]
    /\ out[1][2] > given[Len(given)][2]
    /\ Covered(out) # {}

\* C16: the result of mergeRanges does not depend on the order of the input
\* list: a list and any permutation of it, ranges that share a start and
\* differ in end included, merge to the same output.
MergeOrderIndependent ==
    (out # Null /\ outShuffled # Null) => out = outShuffled

\* --------------------------------------------------- specification: minify
CssAlphabet == {"/", "*", " ", "\n", ";", "}", ":", "a"}
CssInputs == SeqsUpTo(CssAlphabet, MaxCssLen)

InitMinify ==
    /\ css \in CssInputs
    /\ once = Null
    /\ twice = Null
    /\ MergeIdle
    /\ KeyIdle
    /\ CacheIdle
    /\ AssembleIdle
    /\ InitServer

MinifyOnce ==
    /\ once = Null
    /\ once' = minifyCss(css)
    /\ UNCHANGED <<css, twice, mergeVars, keyVars, serverVars, call, assembleVars>>

MinifyTwice ==
    /\ once # Null
    /\ twice = Null
    /\ twice' = minifyCss(once)
    /\ UNCHANGED <<css, once, mergeVars, keyVars, serverVars, call, assembleVars>>

NextMinify == MinifyOnce \/ MinifyTwice

SpecMinify == InitMinify /\ [][NextMinify]_vars

\* C3: minifyCss is idempotent: minifyCss(minifyCss(x)) = minifyCss(x) for every
\* input string x.
MinifyIdempotent == twice # Null => twice = once

\* ------------------------------------------------ specification: cache key
UrlA == <<"h", "t", "t", "p", ":", "/", "/", "a">>
UrlB == <<"h", "t", "t", "p", ":", "/", "/", "b">>

KeyQueries ==
    [url : {UrlA, UrlB},
     w : {<<>>, <<"1", "0", "0">>},
     h : {<<>>},
     ua : {<<>>, <<"m">>},
     settle : {<<>>, <<"5">>},
     csswait : {<<>>},
     wait : {<<>>, <<"a", ",", " ", "b">>, <<"a", "|", "b">>},
     scope : {<<>>, <<"H", "e", "a", "d", "e", "r">>},
     base : {<<>>, <<"0">>}]

InitKey ==
    /\ queryA \in KeyQueries
    /\ queryB \in KeyQueries
    /\ keyA = Null
    /\ keyB = Null
    /\ MergeIdle
    /\ MinifyIdle
    /\ CacheIdle
    /\ AssembleIdle
    /\ InitServer

BuildKeyA ==
    /\ keyA = Null
    /\ keyA' = cacheKey(queryA)
    /\ UNCHANGED <<queryA, queryB, keyB, mergeVars, minifyVars, serverVars, call, assembleVars>>

BuildKeyB ==
    /\ keyB = Null
    /\ keyB' = cacheKey(queryB)
    /\ UNCHANGED <<queryA, queryB, keyA, mergeVars, minifyVars, serverVars, call, assembleVars>>

NextKey == BuildKeyA \/ BuildKeyB

SpecKey == InitKey /\ [][NextKey]_vars

\* C4: two requests have the same cache key exactly when their canonicalized
\* parameters (url, width, height, user agent, settle, css wait, wait
\* selectors, scope, base flag) are the same.
KeyInjective ==
    (keyA # Null /\ keyB # Null) =>
        ((Canonical(queryA) = Canonical(queryB)) <=> (keyA = keyB))

\* ------------------------------------------------ specification: reassembly
\* The handler from the usage list to the text it minifies (bySheet, critical,
\* globalBase), on usage lists of up to MaxUsage records over NumSheets sheets.
NumSheets == 3
MaxUsage == 3

\* The text of each style sheet, of different lengths.
SheetTextOf(id) ==
    CASE id = 1 -> <<"a", "{", "b", "}">>
      [] id = 2 -> <<"*", "{", "c", "}", "d">>
      [] OTHER -> <<"*", "{", "}">>

\* The offsets a record may carry: plain, overlapping, adjacent, inverted,
\* negative and beyond the end of the text.
UsageRanges == {<<0, 2>>, <<1, 3>>, <<2, 4>>, <<3, 1>>, <<-1, 1>>, <<4, 9>>}

UsageRecords ==
    {[styleSheetId |-> id, startOffset |-> r[1], endOffset |-> r[2], used |-> TRUE] :
        id \in 1..NumSheets, r \in UsageRanges}
    \cup {[styleSheetId |-> id, startOffset |-> 0, endOffset |-> 2, used |-> FALSE] :
            id \in 1..NumSheets}

\* What CSS.getStyleSheetText gives for each sheet: its text, or "" when the
\* call rejects or returns none.
FetchOutcomes ==
    {f \in [1..NumSheets -> {SheetTextOf(id) : id \in 1..NumSheets} \cup {<<>>}] :
        \A id \in 1..NumSheets : f[id] \in {SheetTextOf(id), <<>>}}

InitAssemble ==
    /\ usage \in SeqsUpTo(UsageRecords, MaxUsage)
    /\ sheetIdToText \in FetchOutcomes
    /\ baseWanted \in BOOLEAN
    /\ critical = Null
    /\ globalBase = Null
    /\ baseInputs = Null
    /\ minifierInput = Null
    /\ MergeIdle
    /\ MinifyIdle
    /\ KeyIdle
    /\ CacheIdle
    /\ InitServer

\* sheetIdToText.values(): the texts in the order of bySheet.keys().
TextsInOrder(ruleUsage, fetched) ==
    [k \in 1..Len(BySheet(ruleUsage)) |-> fetched[BySheet(ruleUsage)[k].styleSheetId]]

Assemble ==
    /\ critical = Null
    /\ critical' = Critical(BySheet(usage), TextsInOrder(usage, sheetIdToText))
    /\ globalBase' = GlobalBase(TextsInOrder(usage, sheetIdToText), baseWanted)
    /\ baseInputs' = IF baseWanted THEN BaseSheets(TextsInOrder(usage, sheetIdToText))
                     ELSE <<>>
    /\ minifierInput' = MinifierInput(usage, TextsInOrder(usage, sheetIdToText), baseWanted)
    /\ UNCHANGED <<usage, sheetIdToText, baseWanted, mergeVars, minifyVars, keyVars,
                   serverVars, call>>

NextAssemble == Assemble

SpecAssemble == InitAssemble /\ [][NextAssemble]_vars

\* The characters of s at the offsets of [a, b) clamped to [0, Len(s)]: none
\* when a >= b.
ClampedSlice(s, a, b) ==
    SubSeq(s, Clamp(a, 0, Len(s)) + 1, Clamp(b, 0, Len(s)))

RECURSIVE ClampedSlices(_, _)
ClampedSlices(cssText, spans) ==
    IF spans = <<>> THEN <<>>
    ELSE ClampedSlice(cssText, spans[1][1], spans[1][2]) \o <<"\n">>
         \o ClampedSlices(cssText, Tail(spans))

RECURSIVE ClampedCritical(_, _)
ClampedCritical(sheets, sheetTexts) ==
    IF sheets = <<>> THEN <<>>
    ELSE (IF sheetTexts[1] = <<>> THEN <<>>
          ELSE ClampedSlices(sheetTexts[1], mergeRanges(sheets[1].ranges)))
         \o ClampedCritical(Tail(sheets), Tail(sheetTexts))

\* C12: for used records with any integer offsets (negative, beyond the text,
\* inverted) the text emitted for a merged span is the characters of the sheet
\* text at the offsets of [start, end) clamped to [0, text.length], so an
\* inverted span emits no character.
AssemblyClampsOffsets ==
    critical # Null =>
        critical = ClampedCritical(BySheet(usage), TextsInOrder(usage, sheetIdToText))

\* The sheets with a used record, in the order of their first used record.
UsedSheets(ruleUsage) ==
    {ruleUsage[i].styleSheetId : i \in {j \in 1..Len(ruleUsage) : ruleUsage[j].used}}

FirstUse(ruleUsage, id) ==
    CHOOSE i \in 1..Len(ruleUsage) :
        /\ ruleUsage[i].used /\ ruleUsage[i].styleSheetId = id
        /\ \A j \in 1..(i - 1) : ~(ruleUsage[j].used /\ ruleUsage[j].styleSheetId = id)

SheetsByFirstUse(ruleUsage) ==
    [k \in 1..Cardinality(UsedSheets(ruleUsage)) |->
        CHOOSE id \in UsedSheets(ruleUsage) :
            Cardinality({o \in UsedSheets(ruleUsage) :
                            FirstUse(ruleUsage, o) < FirstUse(ruleUsage, id)}) = k - 1]

\* The ranges of the used records of one sheet, in the order of the list.
RangesOfSheet(ruleUsage, id) ==
    LET own == SelectSeq(ruleUsage, LAMBDA u : u.used /\ u.styleSheetId = id)
    IN  [i \in 1..Len(own) |-> <<own[i].startOffset, own[i].endOffset>>]

\* The slices of a text at the first n of some spans, each followed by "\n".
RECURSIVE SlicesUpTo(_, _, _)
SlicesUpTo(cssText, spans, n) ==
    IF n = 0 THEN <<>>
    ELSE SlicesUpTo(cssText, spans, n - 1)
         \o Substring(cssText, spans[n][1], spans[n][2]) \o <<"\n">>

\* The coverage text of the first n sheets: per sheet that has a text, the
\* slices at the merged spans of its own ranges.
RECURSIVE CoverageUpTo(_, _, _)
CoverageUpTo(ruleUsage, fetched, n) ==
    IF n = 0 THEN <<>>
    ELSE CoverageUpTo(ruleUsage, fetched, n - 1)
         \o (IF fetched[SheetsByFirstUse(ruleUsage)[n]] = <<>> THEN <<>>
             ELSE SlicesUpTo(fetched[SheetsByFirstUse(ruleUsage)[n]],
                             mergeRanges(RangesOfSheet(ruleUsage,
                                                       SheetsByFirstUse(ruleUsage)[n])),
                             Len(mergeRanges(RangesOfSheet(ruleUsage,
                                                           SheetsByFirstUse(ruleUsage)[n])))))

Coverage(ruleUsage, fetched) ==
    CoverageUpTo(ruleUsage, fetched, Cardinality(UsedSheets(ruleUsage)))

\* C15: with base inclusion disabled, critical is the concatenation, over the
\* sheets in the order each first appears among the used records, of the
\* slices of the sheet's text at the merged spans of its own ranges, each
\* followed by "\n" (unused records, sheets with no text contribute nothing),
\* and the text given to the minifier is "\n" followed by critical.
MinifierGetsCoverage ==
    (minifierInput # Null /\ ~baseWanted) =>
        /\ critical = Coverage(usage, sheetIdToText)
        /\ minifierInput = <<"\n">> \o Coverage(usage, sheetIdToText)

\* Two sheets with text are used, the first one again after the second and
\* with an earlier start, and its two ranges merge into one span.
MinifierGetsCoverageWitness ==
    /\ minifierInput # Null
    /\ ~baseWanted
    /\ Len(usage) = 3
    /\ usage[1].used /\ usage[2].used /\ usage[3].used
    /\ usage[1].styleSheetId = usage[3].styleSheetId
    /\ usage[2].styleSheetId # usage[1].styleSheetId
    /\ sheetIdToText[usage[1].styleSheetId] # <<>>
    /\ sheetIdToText[usage[2].styleSheetId] # <<>>
    /\ Len(mergeRanges(RangesOfSheet(usage, usage[1].styleSheetId))) = 1
    /\ usage[1].startOffset > usage[3].startOffset
    /\ Len(SelectSeq(critical, LAMBDA c : c = "\n")) = 2

\* C15 as stated: with base inclusion disabled the text given to the minifier
\* is exactly that concatenation.
MinifierGetsCoverageOnly ==
    (minifierInput # Null /\ ~baseWanted) =>
        minifierInput = Coverage(usage, sheetIdToText)

\* The sheets with a used record and a non-empty fetched text.
BaseCandidates(ruleUsage, fetched) ==
    {id \in UsedSheets(ruleUsage) : fetched[id] # <<>>}

\* C17: when base inclusion is requested extractGlobalBase is run on at most
\* two texts, those of sheets that have a used record and a non-empty text,
\* each selected text at least as long as each one not selected, and its output
\* comes before the coverage text; when base inclusion is not requested
\* extractGlobalBase is not run.
BaseFromLongestTwo ==
    baseInputs # Null =>
        IF baseWanted
        THEN /\ Len(baseInputs) <= 2
             /\ Len(baseInputs) =
                    Min(2, Cardinality(BaseCandidates(usage, sheetIdToText)))
             /\ \E chosen \in SUBSET BaseCandidates(usage, sheetIdToText) :
                   /\ \E f \in [1..Len(baseInputs) -> chosen] :
                         /\ \A i, j \in 1..Len(baseInputs) : f[i] = f[j] => i = j
                         /\ \A id \in chosen : \E i \in 1..Len(baseInputs) : f[i] = id
                         /\ \A i \in 1..Len(baseInputs) :
                               baseInputs[i] = sheetIdToText[f[i]]
                   /\ \A id \in chosen :
                         \A o \in BaseCandidates(usage, sheetIdToText) \ chosen :
                            Len(sheetIdToText[id]) >= Len(sheetIdToText[o])
             /\ globalBase = BaseOf(baseInputs)
             /\ minifierInput = globalBase \o <<"\n">> \o critical
        ELSE /\ baseInputs = <<>>
             /\ globalBase = <<>>

\* Three sheets with text are used, the shortest first: the base is extracted
\* from the other two, the longest first, and is not empty.
BaseFromLongestTwoWitness ==
    /\ baseInputs # Null
    /\ baseWanted
    /\ Cardinality(BaseCandidates(usage, sheetIdToText)) = 3
    /\ Len(baseInputs) = 2
    /\ \A i \in 1..2 : Len(sheetIdToText[usage[1].styleSheetId]) < Len(baseInputs[i])
    /\ Len(baseInputs[1]) > Len(baseInputs[2])
    /\ extractGlobalBase(baseInputs[1]) # <<>>

=============================================================================
